---- MODULE Spec2Model ----
(***************************************************************************)
(* Kirby-Paris hydra game: the two engines of the repository.              *)
(*   index.js  - chop: turn-indexed growth (N = step, or 1 when reduced)   *)
(*   script.js - cutLeaf: depth-indexed growth (N = depthCounters[d] + 1)  *)
(* Nodes are objects of an object store (heap): a node's identity is its   *)
(* address, its fields are children (a sequence of addresses) and parent   *)
(* (an address or Null).  A handler allocates new objects at unused        *)
(* addresses; between two events the store drops what the root no longer   *)
(* reaches and renumbers the live objects in pre-order (Collect).          *)
(***************************************************************************)
EXTENDS Integers, Sequences, FiniteSets, TLC

VARIABLES
    page,           \* which program runs: "index" (index.js) or "script" (script.js)
    heap,           \* the object store: address -> node record
    hydra,          \* script.js: the root node (let hydra); index.js: unused (Null)
    step,           \* index.js: let step
    reducedGrowth,  \* index.js: let reducedGrowth
    listening,      \* index.js: handleClick is registered on the canvas
    moveCount,      \* script.js: let moveCount
    depthCounters,  \* script.js: const depthCounters (Map depth -> count)
    initialSeed,    \* script.js: let initialSeed (seed.type, or NoSeed for null)
    last,           \* the handler that ran last, with its locals (leaf, P, G, N)
    cuts,           \* history: cuts performed since the last load
    regrowths,      \* history: regrowth cuts since the last load, per actual depth of P
    loaded,         \* script.js history: the shape of the tree the last load or reset built
    display,        \* what the page shows: status text and, in index.js, the canvas captions
    genArgs,        \* script.js: the arguments of the randomHydra call that built the loaded
                    \* tree (NoArgs when another generator built it)
    ids,            \* the id field of every object of the store
    idCounter,      \* index.js: the counter newId draws from
    nextId,         \* script.js: the counter newId draws from
    mouse           \* index.js: isPanning, dragged, justPanned, the pending timers of endPan,
                    \* and the history of the current press: its phase and the click's target

vars == <<page, heap, hydra, step, reducedGrowth, listening, moveCount,
          depthCounters, initialSeed, last, cuts, regrowths, loaded, display,
          genArgs, ids, idCounter, nextId, mouse>>

indexVars == <<step, reducedGrowth, listening, idCounter>>
scriptVars == <<hydra, moveCount, depthCounters, initialSeed, genArgs, nextId>>

----------------------------------------------------------------------------
\* Bounds of the model
MaxStep == 4            \* cuts explored after a load
MaxNodes == 14          \* a cut is explored when the tree it leaves has at most this many nodes
MaxTopNodes == 3        \* index.js: size of the random trees explored (nodes below the root)
MaxRandomNodes == 5     \* script.js: size of the random trees explored (nodes below the root)
MaxLoadCuts == 1        \* a preset is loaded after at most this many cuts since the last load
MaxChainStep == 40      \* cuts explored in the chain specification
MaxChainNodes == 30     \* tree size explored in the chain specification
MaxDepthArg == 3        \* randomHydra: largest maxDepth explored
MaxBranchArg == 3       \* randomHydra: largest maxBranch explored
MaxGenNodes == 5        \* randomHydra: size of the results explored (nodes below the root)
MaxMouseStep == 2       \* cuts explored in the mouse specification
MaxMouseNodes == 8      \* tree size explored in the mouse specification
MaxTimers == 2          \* timers of endPan pending at once

Null == -1
NoSeed == "null"
NoShape == <<>>
NoArgs == [maxDepth |-> Null, maxBranch |-> Null]

\* index.js: let root = new Node(0), never reassigned
root == 0

----------------------------------------------------------------------------
\* The object store

\* the address the next allocated object gets: the smallest unused one
Alloc(h) ==
    LET k == Cardinality(DOMAIN h)
    IN IF DOMAIN h = 0..(k - 1) THEN k
       ELSE CHOOSE i \in 0..k : i \notin DOMAIN h /\ \A j \in 0..(i - 1) : j \in DOMAIN h

RECURSIVE PreOrder(_, _)
RECURSIVE PreOrderAll(_, _)
\* index.js getAllNodes: the nodes reachable from n through children, in pre-order
PreOrder(h, n) == <<n>> \o PreOrderAll(h, h[n].children)
PreOrderAll(h, kids) ==
    IF kids = <<>> THEN <<>>
    ELSE PreOrder(h, Head(kids)) \o PreOrderAll(h, Tail(kids))

Range(s) == {s[i] : i \in 1..Len(s)}

getAllNodes(h, r) == PreOrder(h, r)

\* the objects the root reaches
Reach(h, r) == Range(PreOrder(h, r))

\* what is left of the store when unreachable objects are dropped
Live(h, r) == [n \in Reach(h, r) |-> h[n]]

Filter(s, x) == SelectSeq(s, LAMBDA c : c # x)

\* the position of object n in the sequence po, counted from 0 (n itself when absent)
Position(po, n) ==
    IF n \in Range(po)
    THEN (CHOOSE i \in 1..Len(po) : po[i] = n /\ \A j \in 1..(i - 1) : po[j] # n) - 1
    ELSE n

\* the store with its live objects renumbered in pre-order from the root r
Relocate(h, r) ==
    LET po == PreOrder(h, r)
    IN [a \in 0..(Len(po) - 1) |->
          [h[po[a + 1]] EXCEPT
              !.children = [i \in 1..Len(@) |-> Position(po, @[i])],
              !.parent = IF @ = Null THEN Null ELSE Position(po, @)]]

Compacted(h, r) ==
    LET po == PreOrder(h, r)
    IN /\ DOMAIN h = 0..(Len(po) - 1)
       /\ \A i \in 1..Len(po) : po[i] = i - 1

\* the shape of the subtree of n: the sequence of the shapes of its children
RECURSIVE Shape(_, _)
Shape(h, n) == [i \in 1..Len(h[n].children) |-> Shape(h, h[n].children[i])]

RECURSIVE ShapeSize(_)
RECURSIVE ForestSize(_)
\* the number of nodes of a tree of shape s
ShapeSize(s) == 1 + ForestSize(s)
ForestSize(f) == IF f = <<>> THEN 0 ELSE ShapeSize(Head(f)) + ForestSize(Tail(f))

\* the number of nodes the root reaches (index.js redraw: nodesList.length)
NodeCount(h, r) == Len(PreOrder(h, r))

\* the distance of n from the root, by walking the parent references
RECURSIVE Distance(_, _)
Distance(h, n) == IF h[n].parent = Null THEN 0 ELSE 1 + Distance(h, h[n].parent)

----------------------------------------------------------------------------
\* index.js

RECURSIVE SetParents(_, _, _)
\* for (let child of children) child.parent = this
SetParents(h, kids, node) ==
    IF kids = <<>> THEN h
    ELSE SetParents([h EXCEPT ![Head(kids)].parent = node], Tail(kids), node)

\* class Node: new Node(id, children) stores the children and makes itself their parent
NewNode(h, kids) ==
    LET nn == Alloc(h)
    IN [heap |-> SetParents((nn :> [children |-> kids, parent |-> Null]) @@ h, kids, nn),
        node |-> nn]

RECURSIVE ChainUp(_, _, _)
\* initHydra's loop: for (i = length - 1; i >= 1; i--) current = new Node(i, [current])
ChainUp(h, current, i) ==
    IF i < 1 THEN [heap |-> h, node |-> current]
    ELSE LET r == NewNode(h, <<current>>)
         IN ChainUp(r.heap, r.node, i - 1)

\* initHydra(length): the store once the chain hangs below the root
initHydra(h, length) ==
    LET first == NewNode(h, <<>>)
        r == ChainUp(first.heap, first.node, length - 1)
    IN [r.heap EXCEPT ![root].children = <<r.node>>, ![r.node].parent = root]

RECURSIVE buildRandom(_, _)
RECURSIVE buildRandomKids(_, _, _)
\* initRandomHydra's buildRandom, with the outcome of its draws given as the shape s:
\* the node is allocated first, then each child is built and pushed
buildRandom(h, s) ==
    LET nn == Alloc(h)
        h0 == (nn :> [children |-> <<>>, parent |-> Null]) @@ h
    IN [heap |-> buildRandomKids(h0, s, nn), node |-> nn]
buildRandomKids(h, kids, node) ==
    IF kids = <<>> THEN h
    ELSE LET r == buildRandom(h, Head(kids))
             h1 == [r.heap EXCEPT ![r.node].parent = node,
                                  ![node].children = Append(@, r.node)]
         IN buildRandomKids(h1, Tail(kids), node)

RECURSIVE RandomShapes(_, _)
RECURSIVE RandomForests(_, _, _)
\* the shapes buildRandom(depth) can return that have at most n nodes: a leaf when
\* depth <= 0, else 1..3 children built at depth - 1 or depth - 2
RandomShapes(depth, n) ==
    IF n < 1 THEN {}
    ELSE IF depth <= 0 THEN {<<>>}
    ELSE UNION {RandomForests(depth, count, n - 1) : count \in 1..3}
RandomForests(depth, count, n) ==
    IF count = 0 THEN {<<>>}
    ELSE UNION {{<<s>> \o f : f \in RandomForests(depth, count - 1, n - ShapeSize(s))} :
                s \in RandomShapes(depth - 1, n - (count - 1))
                      \cup RandomShapes(depth - 2, n - (count - 1))}

\* initRandomHydra: maxDepth = 2 + floor(random * 3)
RandomTops == UNION {RandomShapes(maxDepth, MaxTopNodes) : maxDepth \in 2..4}

\* initRandomHydra: the store once the random tree hangs below the root
initRandomHydra(h, s) ==
    LET r == buildRandom(h, s)
    IN [r.heap EXCEPT ![root].children = <<r.node>>, ![r.node].parent = root]

\* deepCopy that copies the node alone and leaves its children out
deepCopy_NoKids(h, node, newParent) ==
    LET newNode == Alloc(h)
    IN [heap |-> (newNode :> [children |-> <<>>, parent |-> newParent]) @@ h,
        node |-> newNode]

\* deepCopy that shares the children of the source instead of copying them
deepCopy_Shared(h, node, newParent) ==
    LET newNode == Alloc(h)
    IN [heap |-> (newNode :> [children |-> h[node].children, parent |-> newParent]) @@ h,
        node |-> newNode]

RECURSIVE deepCopy(_, _, _)
RECURSIVE deepCopyKids(_, _, _)
\* deepCopy(node, newParent): a new node whose parent is newParent and whose
\* children are the copies of node's children, in order
deepCopy(h, node, newParent) ==
    LET newNode == Alloc(h)
        h0 == (newNode :> [children |-> <<>>, parent |-> newParent]) @@ h
    IN [heap |-> deepCopyKids(h0, h[node].children, newNode), node |-> newNode]
deepCopyKids(h, kids, newNode) ==
    IF kids = <<>> THEN h
    ELSE LET r == deepCopy(h, Head(kids), newNode)
         IN deepCopyKids([r.heap EXCEPT ![newNode].children = Append(@, r.node)],
                         Tail(kids), newNode)

\* isLeaf(node): node.children.length === 0 && node !== root
isLeafIndex(h, node) == Len(h[node].children) = 0 /\ node # root

\* the growth factor that ignores the reduced-growth mode
GrowthFactor_Full(rg, st) == st

\* the growth factor read before step++
GrowthFactor_Stale(rg, st) == IF rg THEN 1 ELSE st - 1

\* chop: const N = reducedGrowth ? 1 : step (step already incremented)
GrowthFactor(rg, st) == IF rg THEN 1 ELSE st

RECURSIVE AttachCopies(_, _, _, _)
RECURSIVE AttachCopies_OffByOne(_, _, _, _)
\* the loop of chop started at i = 1
AttachCopies_OffByOne(h, P, G, N) ==
    IF N <= 1 THEN h
    ELSE LET r == deepCopy(h, P, G)
         IN AttachCopies_OffByOne([r.heap EXCEPT ![G].children = Append(@, r.node)],
                                  P, G, N - 1)

RECURSIVE AttachCopies_Below(_, _, _, _)
\* the loop of chop pushing the copies to P itself
AttachCopies_Below(h, P, G, N) ==
    IF N <= 0 THEN h
    ELSE LET r == deepCopy(h, P, P)
         IN AttachCopies_Below([r.heap EXCEPT ![P].children = Append(@, r.node)],
                               P, G, N - 1)

\* chop: for (i = 0; i < N; i++) { copy = deepCopy(P, G); G.children.push(copy) }
AttachCopies(h, P, G, N) ==
    IF N <= 0 THEN h
    ELSE LET r == deepCopy(h, P, G)
         IN AttachCopies([r.heap EXCEPT ![G].children = Append(@, r.node)], P, G, N - 1)

\* chop without the removal of the leaf
Excise_Keep(h, P, leaf) == h

\* chop that drops P's first child, whichever the leaf is
Excise_First(h, P, leaf) == [h EXCEPT ![P].children = Tail(@)]

\* chop: P.children = P.children.filter(c => c !== leaf)
Excise(h, P, leaf) == [h EXCEPT ![P].children = Filter(@, leaf)]

\* chop that leaves the listener registered
ListenerAfterChop_Kept(h, l) == l

\* chop, after redraw: if (root.children.length === 0) removeEventListener('click', handleClick)
ListenerAfterChop(h, l) == IF h[root].children = <<>> THEN FALSE ELSE l

\* redraw: status.innerText = `t = ${step + 1}`
StatusTurn(st) == st + 1

\* relabelTree that numbers from 1
relabelTree_FromOne(h, r) ==
    [ids |-> [n \in Reach(h, r) |-> Position(PreOrder(h, r), n) + 1],
     idCounter |-> Len(PreOrder(h, r)) + 1]

RECURSIVE traverse(_, _, _, _)
RECURSIVE traverseChildren(_, _, _, _)
\* relabelTree's traverse(node): node.id = next++, then the children in order; m holds
\* the ids set so far
traverse(h, node, m, next) == traverseChildren(h, h[node].children, (node :> next) @@ m, next + 1)
traverseChildren(h, kids, m, next) ==
    IF kids = <<>> THEN [ids |-> m, next |-> next]
    ELSE LET r == traverse(h, Head(kids), m, next)
         IN traverseChildren(h, Tail(kids), r.ids, r.next)

\* relabelTree, which redraw runs first: next = 0; traverse(root); idCounter = next
relabelTree(h, r) ==
    LET t == traverse(h, r, <<>>, 0)
    IN [ids |-> t.ids, idCounter |-> t.next]

\* redraw that shows the growth factor of the cut just made
redraw_LastFactor(h, st, rg) ==
    [counter |-> StatusTurn(st), slain |-> h[root].children = <<>>,
     regrowthN |-> IF rg THEN 1 ELSE st, nodes |-> Len(getAllNodes(h, root))]

\* redraw, as what it shows: `t = ${step + 1}`, ' - Hydra slain!' when root has no
\* children, `Regrowth n = ${reducedGrowth ? 1 : step + 1}`, `Nodes = ${nodesList.length}`
redraw(h, st, rg) ==
    [counter |-> StatusTurn(st), slain |-> h[root].children = <<>>,
     regrowthN |-> IF rg THEN 1 ELSE st + 1, nodes |-> Len(getAllNodes(h, root))]

\* chop that regrows only when the grandparent is not the root either
Regrows_BelowTop(h, P) == P # root /\ h[P].parent # root

\* chop: if (P !== root)
Regrows(h, P) == P # root

\* chop(leaf), as the values it leaves behind.  With leaf.parent null the read of
\* P.children throws after step++ and nothing else runs.
chop(h, st, rg, leaf) ==
    LET st1 == st + 1
        P == h[leaf].parent
    IN IF P = Null
       THEN [heap |-> h, step |-> st1, P |-> Null, G |-> Null, N |-> 0,
             error |-> "TypeError"]
       ELSE LET h1 == Excise(h, P, leaf)
            IN IF Regrows(h1, P)
               THEN LET G == h1[P].parent
                        N == GrowthFactor(rg, st1)
                    IN [heap |-> AttachCopies(h1, P, G, N), step |-> st1,
                        P |-> P, G |-> G, N |-> N, error |-> "none"]
               ELSE [heap |-> h1, step |-> st1, P |-> P, G |-> Null, N |-> 0,
                     error |-> "none"]

hSpacing == 40
vSpacing == 80

\* computeWidths that reserves hSpacing for every node
computeWidths_Flat(h, node) == hSpacing

RECURSIVE computeWidths(_, _)
RECURSIVE SumWidths(_, _)
\* computeWidths(node), as the width it stores in node: hSpacing without children, else
\* Math.max(hSpacing, sum of the children's widths)
computeWidths(h, node) ==
    IF Len(h[node].children) = 0 THEN hSpacing
    ELSE LET sum == SumWidths(h, h[node].children)
         IN IF hSpacing > sum THEN hSpacing ELSE sum
SumWidths(h, kids) ==
    IF kids = <<>> THEN 0 ELSE computeWidths(h, Head(kids)) + SumWidths(h, Tail(kids))

\* placeNodes that draws the whole subtree on the level of its top
placeNodes_Flat(h, node, x, y) == [n \in Reach(h, node) |-> [x |-> x, y |-> y]]

RECURSIVE placeNodes(_, _, _, _)
RECURSIVE placeChildren(_, _, _, _)
\* placeNodes(node, x, y), as the x and y it stores in node and below: the children
\* start at x - sumChildWidth / 2, each centred in a slot of its own width, one level up
placeNodes(h, node, x, y) ==
    (node :> [x |-> x, y |-> y])
       @@ placeChildren(h, h[node].children, x - SumWidths(h, h[node].children) \div 2,
                        y - vSpacing)
placeChildren(h, kids, currentX, y) ==
    IF kids = <<>> THEN <<>>
    ELSE LET w == computeWidths(h, Head(kids))
         IN placeNodes(h, Head(kids), currentX + w \div 2, y)
            @@ placeChildren(h, Tail(kids), currentX + w, y)

----------------------------------------------------------------------------
\* script.js

\* depthCounters.get(d) || 0
MapGet(m, d) == IF d \in DOMAIN m THEN m[d] ELSE 0
\* a set that forgets the counters of the other depths
MapSet_Alone(m, d, k) == (d :> k)

\* depthCounters.set(d, k)
MapSet(m, d, k) == [x \in DOMAIN m \cup {d} |-> IF x = d THEN k ELSE m[x]]
\* depthCounters.clear()
EmptyMap == <<>>

\* makeNode(children): { children, parent: null, depth: 0 }, the children's parent set to it
makeNode(h, kids) ==
    LET nn == Alloc(h)
    IN [heap |-> SetParents((nn :> [children |-> kids, parent |-> Null, depth |-> 0]) @@ h,
                            kids, nn),
        node |-> nn]

\* id: newId() in makeNode and cloneSubtree: the objects h1 holds beyond h get the ids
\* next, next + 1, ... in the order they were allocated, which is the order of their
\* addresses; the others keep theirs
newIds(m, h, h1, next) ==
    [a \in DOMAIN h1 |->
        IF a \in DOMAIN h THEN m[a]
        ELSE next + Cardinality({b \in DOMAIN h1 \ DOMAIN h : b < a})]

RECURSIVE cloneSubtree(_, _)
RECURSIVE cloneKids(_, _, _)
\* cloneSubtree(node): rec(n) makes { children: [], parent: null, depth: 0 } and pushes
\* the copy of each child after setting that copy's parent
cloneSubtree(h, n) ==
    LET copy == Alloc(h)
        h0 == (copy :> [children |-> <<>>, parent |-> Null, depth |-> 0]) @@ h
    IN [heap |-> cloneKids(h0, h[n].children, copy), node |-> copy]
cloneKids(h, kids, copy) ==
    IF kids = <<>> THEN h
    ELSE LET r == cloneSubtree(h, Head(kids))
             h1 == [r.heap EXCEPT ![r.node].parent = copy,
                                  ![copy].children = Append(@, r.node)]
         IN cloneKids(h1, Tail(kids), copy)

RECURSIVE assignDepths(_, _, _)
RECURSIVE assignDepthsKids(_, _, _)
\* assignDepths(node, d): node.depth = d, then the children with d + 1
assignDepths(h, node, d) ==
    assignDepthsKids([h EXCEPT ![node].depth = d], h[node].children, d + 1)
assignDepthsKids(h, kids, d) ==
    IF kids = <<>> THEN h
    ELSE assignDepthsKids(assignDepths(h, Head(kids), d), Tail(kids), d)

isLeaf(h, n) == Len(h[n].children) = 0
isRoot(h, n) == h[n].parent = Null

RECURSIVE makeTree(_, _)
RECURSIVE makeKids(_, _, _)
\* the rec of balancedHydra and randomHydra: the children are built first, in order,
\* then makeNode(kids); s is the shape the recursion produces
makeTree(h, s) ==
    LET r == makeKids(h, s, <<>>)
    IN makeNode(r.heap, r.kids)
makeKids(h, shapes, kids) ==
    IF shapes = <<>> THEN [heap |-> h, kids |-> kids]
    ELSE LET r == makeTree(h, Head(shapes))
         IN makeKids(r.heap, Tail(shapes), Append(kids, r.node))

RECURSIVE BalancedShape(_, _)
\* balancedHydra(depth, branching): rec(d) is a leaf at d = 0, else branching kids rec(d - 1)
BalancedShape(depth, branching) ==
    IF depth = 0 THEN <<>>
    ELSE [i \in 1..branching |-> BalancedShape(depth - 1, branching)]

RECURSIVE RandomRec(_, _, _, _)
RECURSIVE RandomRecKids(_, _, _, _, _)
\* randomHydra's rec(d), as the shapes with at most n nodes it can return: a leaf when
\* d = maxDepth or the draw falls under leafBias, else 1..maxBranch kids rec(d + 1)
RandomRec(d, maxDepth, maxBranch, n) ==
    IF n < 1 THEN {}
    ELSE IF d = maxDepth THEN {<<>>}
    ELSE {<<>>} \cup UNION {RandomRecKids(d + 1, maxDepth, maxBranch, k, n - 1) :
                            k \in 1..maxBranch}
RandomRecKids(d, maxDepth, maxBranch, k, n) ==
    IF k = 0 THEN {<<>>}
    ELSE UNION {{<<s>> \o f :
                    f \in RandomRecKids(d, maxDepth, maxBranch, k - 1, n - ShapeSize(s))} :
                s \in RandomRec(d, maxDepth, maxBranch, n - (k - 1))}

\* randomHydra(maxDepth, maxBranch, leafBias): makeNode([rec(1), rec(1)]), as the shapes
\* of at most n nodes below the root
RandomHydraShapes(maxDepth, maxBranch, n) ==
    {s \in {<<a, b>> : a \in RandomRec(1, maxDepth, maxBranch, n - 1),
                       b \in RandomRec(1, maxDepth, maxBranch, n - 1)} :
        ShapeSize(s) <= n + 1}

\* the trees the preset buttons and Reset build
SimpleShapes == {BalancedShape(3, 2)}
MediumShapes == {BalancedShape(4, 3)}
RandomPresetShapes == RandomHydraShapes(5, 3, MaxRandomNodes)

\* the preset button and Reset call randomHydra(5, 3, 0.35)
PresetArgs(type) == IF type = "random" THEN [maxDepth |-> 5, maxBranch |-> 3] ELSE NoArgs

PresetTypes == {"simple", "medium", "random"}
PresetShapes(type) ==
    CASE type = "simple" -> SimpleShapes
      [] type = "medium" -> MediumShapes
      [] type = "random" -> RandomPresetShapes

RECURSIVE AttachClones_NoParent(_, _, _, _)
\* the loop of cutLeaf without copy.parent = g
AttachClones_NoParent(h, p, g, k) ==
    IF k <= 0 THEN h
    ELSE LET r == cloneSubtree(h, p)
         IN AttachClones_NoParent([r.heap EXCEPT ![g].children = Append(@, r.node)],
                                  p, g, k - 1)

RECURSIVE AttachClones(_, _, _, _)
\* cutLeaf: for (i = 0; i < k; i++) { copy = cloneSubtree(p); copy.parent = g; g.children.push(copy) }
AttachClones(h, p, g, k) ==
    IF k <= 0 THEN h
    ELSE LET r == cloneSubtree(h, p)
         IN AttachClones([r.heap EXCEPT ![r.node].parent = g,
                                        ![g].children = Append(@, r.node)], p, g, k - 1)

\* one counter for all depths: the largest stored count, plus one
CounterFactor_Shared(dc, d) ==
    (IF DOMAIN dc = {} THEN 0
     ELSE CHOOSE m \in {dc[x] : x \in DOMAIN dc} : \A x \in DOMAIN dc : dc[x] <= m) + 1

\* cutLeaf: const k = prev + 1, prev = depthCounters.get(d) || 0
CounterFactor(dc, d) == MapGet(dc, d) + 1

\* updateStatus: statusEl.textContent = `Moves: ${moveCount}`
updateStatus(mc) == [counter |-> mc, slain |-> FALSE]

\* checkWin that never reports the win
checkWin_Silent(h, r, mc, d) == d

\* checkWin: if (hydra.children.length === 0) the status reads
\* `Moves: ${moveCount} — You slayed the hydra!`; d is what the status showed before
checkWin(h, r, mc, d) == IF Len(h[r].children) = 0 THEN [counter |-> mc, slain |-> TRUE] ELSE d

\* afterMutation without the refresh of the depths
afterMutation_Stale(h, r) == h

\* afterMutation: assignDepths(hydra) (then render, updateStatus, checkWin)
afterMutation(h, r) == assignDepths(h, r, 0)

\* cutLeaf(leaf), as the values it leaves behind; done is FALSE when a guard returned
cutLeaf(h, r, mc, dc, leaf) ==
    LET p == h[leaf].parent
    IN IF ~isLeaf(h, leaf) \/ p = Null
       THEN [heap |-> h, moveCount |-> mc, depthCounters |-> dc, done |-> FALSE,
             P |-> Null, G |-> Null, N |-> 0]
       ELSE LET h1 == [h EXCEPT ![p].children = Filter(@, leaf)]
            IN IF isRoot(h1, p)
               THEN [heap |-> afterMutation(h1, r), moveCount |-> mc + 1,
                     depthCounters |-> dc, done |-> TRUE, P |-> p, G |-> Null, N |-> 0]
               ELSE LET g == h1[p].parent
                        d == h1[p].depth
                        k == CounterFactor(dc, d)
                        h2 == AttachClones(h1, p, g, k)
                    IN [heap |-> afterMutation(h2, r), moveCount |-> mc + 1,
                        depthCounters |-> MapSet(dc, d, k), done |-> TRUE,
                        P |-> p, G |-> g, N |-> k]

\* resetCounters that leaves the counters as they are
resetCounters_Keep(dc) == dc

\* resetCounters: depthCounters.clear()
resetCounters(dc) == EmptyMap

\* setHydra(root, seed) after a generator built the tree of shape s: the new tree is
\* built while the old one is still referenced
setHydra(h, s) ==
    LET r == makeTree(h, s)
    IN [heap |-> assignDepths(r.heap, r.node, 0), hydra |-> r.node]

\* const WIDTH = () => svg.clientWidth || 1000: the fallback width, in pixels
WIDTH == 1000
LEVEL_GAP == 90

\* coordinates are counted in units of 1 / SubPixel of a pixel, so that every share
\* (size / total) * (W - 120) of a tree with at most 18 leaves, and every midpoint, is
\* a whole number
SubPixel == 2 * 9 * 7 * 13 * 17
Px(v) == v * SubPixel

RECURSIVE size(_, _)
RECURSIVE SumSizes(_, _)
\* computeLayout's size(n): 1 for a node without children, else the sum over its children
size(h, n) == IF Len(h[n].children) > 0 THEN SumSizes(h, h[n].children) ELSE 1
SumSizes(h, kids) == IF kids = <<>> THEN 0 ELSE size(h, Head(kids)) + SumSizes(h, Tail(kids))

RECURSIVE place(_, _, _, _, _)
RECURSIVE placeKids(_, _, _, _, _, _)
\* computeLayout's place(n, xLeft, xRight, depth): the coords it sets for n and below,
\* each with the span the call was given
place(h, n, xLeft, xRight, depth) ==
    LET here == (n :> [x |-> (xLeft + xRight) \div 2, y |-> Px(40 + depth * LEVEL_GAP),
                       xLeft |-> xLeft, xRight |-> xRight])
    IN IF Len(h[n].children) = 0 THEN here
       ELSE here @@ placeKids(h, h[n].children, SumSizes(h, h[n].children), xLeft,
                              Px(WIDTH - 120), depth + 1)
\* for (const ch of n.children) { w = (size(ch) / total) * (W - 120); place(ch, cur,
\* cur + w, depth + 1); cur += w }
placeKids(h, kids, total, cur, full, depth) ==
    IF kids = <<>> THEN <<>>
    ELSE LET w == (size(h, Head(kids)) * full) \div total
         IN place(h, Head(kids), cur, cur + w, depth)
            @@ placeKids(h, Tail(kids), total, cur + w, full, depth)

\* computeLayout(root): place(root, 60, W - 60, 0)
computeLayout(h, r) == place(h, r, Px(60), Px(WIDTH - 60), 0)

----------------------------------------------------------------------------
\* Events

NoHeap == <<>>
Top == IF page = "index" THEN root ELSE hydra
Slain == heap[Top].children = <<>>

\* the record of a handler: leaf, P, G, N are the locals of the cut it ran (Null, 0 when
\* it ran none), alloc the number of objects it allocated, error what it threw
Event(op, leaf, P, G, N, alloc, error) ==
    [op |-> op, leaf |-> leaf, P |-> P, G |-> G, N |-> N, alloc |-> alloc,
     error |-> error]
Plain(op) == Event(op, Null, Null, Null, 0, 0, "none")

\* index.js: let isPanning = false, dragged = false, justPanned = false; no timer is
\* pending and no button is down
Idle == [isPanning |-> FALSE, dragged |-> FALSE, justPanned |-> FALSE, timers |-> 0,
         pressed |-> "none", target |-> Null]

\* index.js after DOMContentLoaded: root = new Node(0), listener added, initHydra(3)
InitIndex ==
    /\ page = "index"
    /\ heap = Live(initHydra((root :> [children |-> <<>>, parent |-> Null]), 3), root)
    /\ step = 0 /\ reducedGrowth = FALSE /\ listening = TRUE
    /\ hydra = Null /\ moveCount = 0 /\ depthCounters = EmptyMap /\ initialSeed = NoSeed
    /\ genArgs = NoArgs
    /\ ids = relabelTree(heap, root).ids /\ idCounter = relabelTree(heap, root).idCounter
    /\ nextId = 1
    /\ display = redraw(heap, step, reducedGrowth)

\* script.js after its body ran: setHydra(balancedHydra(3, 2), { type: 'simple' })
InitScript ==
    /\ page = "script"
    /\ LET r == setHydra(NoHeap, BalancedShape(3, 2))
       IN heap = Live(r.heap, r.hydra) /\ hydra = r.hydra
    /\ moveCount = 0 /\ depthCounters = EmptyMap /\ initialSeed = "simple"
    /\ genArgs = PresetArgs(initialSeed)
    /\ step = 0 /\ reducedGrowth = FALSE /\ listening = FALSE
    /\ display = updateStatus(moveCount)
    /\ ids = newIds(NoHeap, NoHeap, heap, 1) /\ nextId = 1 + Cardinality(DOMAIN heap)
    /\ idCounter = 0

Init ==
    /\ InitIndex \/ InitScript
    /\ last = Plain("init")
    /\ cuts = 0
    /\ mouse = Idle
    /\ regrowths = EmptyMap
    /\ loaded = IF page = "script" THEN Shape(heap, hydra) ELSE NoShape

\* the store between two events: garbage dropped, live objects renumbered
Collect ==
    /\ ~Compacted(heap, Top)
    /\ heap' = Relocate(heap, Top)
    /\ LET po == PreOrder(heap, Top)
       IN ids' = [a \in DOMAIN heap' |-> ids[po[a + 1]]]
    /\ hydra' = IF page = "script" THEN 0 ELSE hydra
    /\ last' = Plain("collect")
    /\ UNCHANGED <<page, step, reducedGrowth, listening, moveCount, depthCounters,
                   initialSeed, cuts, regrowths, loaded, display, genArgs, idCounter,
                   nextId, mouse>>

\* index.js: the buttons btnL3, btnL4, btnL5 call initHydra(3 | 4 | 5)
LoadChain(length) ==
    /\ page = "index" /\ cuts <= MaxLoadCuts /\ Compacted(heap, root)
    /\ heap' = Live(initHydra(heap, length), root)
    /\ step' = 0
    /\ listening' = TRUE
    /\ last' = Plain("load")
    /\ cuts' = 0 /\ regrowths' = EmptyMap
    /\ display' = redraw(heap', step', reducedGrowth)
    /\ LET t == relabelTree(heap', root)
       IN ids' = t.ids /\ idCounter' = t.idCounter
    /\ UNCHANGED <<page, reducedGrowth, scriptVars, loaded, mouse>>

\* index.js: btnRandom calls initRandomHydra
LoadRandomIndex(s) ==
    /\ page = "index" /\ cuts <= MaxLoadCuts /\ Compacted(heap, root)
    /\ heap' = Live(initRandomHydra(heap, s), root)
    /\ step' = 0
    /\ listening' = TRUE
    /\ last' = Plain("load")
    /\ cuts' = 0 /\ regrowths' = EmptyMap
    /\ display' = redraw(heap', step', reducedGrowth)
    /\ LET t == relabelTree(heap', root)
       IN ids' = t.ids /\ idCounter' = t.idCounter
    /\ UNCHANGED <<page, reducedGrowth, scriptVars, loaded, mouse>>

\* index.js: toggleReducedGrowth
ToggleReducedGrowth ==
    /\ page = "index" /\ Compacted(heap, root)
    /\ reducedGrowth' = ~reducedGrowth
    /\ last' = Plain("toggle")
    /\ display' = redraw(heap, step, reducedGrowth')
    /\ LET t == relabelTree(heap, root)
       IN ids' = t.ids /\ idCounter' = t.idCounter
    /\ UNCHANGED <<page, heap, step, listening, scriptVars, cuts, regrowths, loaded,
                   mouse>>

\* an event that ran no cut: nothing but the record of it changes
Rejected(n) ==
    /\ last' = Plain("reject")
    /\ UNCHANGED <<page, heap, indexVars, scriptVars, cuts, regrowths, loaded, display,
                   ids>>

\* index.js: chop(leaf) run on the node n, and what the handler leaves behind
Chopped(n, maxStep, maxNodes) ==
    LET c == chop(heap, step, reducedGrowth, n)
        regrow == c.G # Null
    IN /\ step < maxStep
       /\ NodeCount(c.heap, root) <= maxNodes
       /\ heap' = Live(c.heap, root)
       /\ step' = c.step
       /\ listening' = IF c.error = "none" THEN ListenerAfterChop(c.heap, listening)
                       ELSE listening
       /\ last' = Event("cut", n, c.P, c.G, c.N,
                          Cardinality(DOMAIN c.heap \ DOMAIN heap), c.error)
       /\ cuts' = cuts + 1
       /\ regrowths' = IF regrow
                       THEN MapSet(regrowths, Distance(heap, c.P),
                                   MapGet(regrowths, Distance(heap, c.P)) + 1)
                       ELSE regrowths
       /\ display' = IF c.error = "none" THEN redraw(c.heap, c.step, reducedGrowth)
                     ELSE display
       /\ IF c.error = "none"
          THEN LET t == relabelTree(c.heap, root)
               IN ids' = t.ids /\ idCounter' = t.idCounter
          ELSE ids' = [a \in DOMAIN heap' |-> ids[a]] /\ idCounter' = idCounter
       /\ UNCHANGED <<page, reducedGrowth, scriptVars, loaded>>

\* index.js: handleClick for a click that lands on the node n (Null: on no node);
\* the first leaf under the pointer is chopped
ClickAt(n, maxStep, maxNodes) ==
    IF listening /\ n # Null /\ isLeafIndex(heap, n)
    THEN Chopped(n, maxStep, maxNodes)
    ELSE Rejected(n)

handleClick ==
    /\ page = "index" /\ Compacted(heap, root)
    /\ \E n \in DOMAIN heap \cup {Null} : ClickAt(n, MaxStep, MaxNodes)
    /\ UNCHANGED mouse

\* script.js: cutLeaf(leaf) run on the node n, and what the handler leaves behind
CutDone(n, maxStep, maxNodes) ==
    LET c == cutLeaf(heap, hydra, moveCount, depthCounters, n)
        regrow == c.G # Null
    IN IF c.done
       THEN /\ moveCount < maxStep
            /\ NodeCount(c.heap, hydra) <= maxNodes
            /\ heap' = Live(c.heap, hydra)
            /\ moveCount' = c.moveCount
            /\ depthCounters' = c.depthCounters
            /\ last' = Event("cut", n, c.P, c.G, c.N,
                               Cardinality(DOMAIN c.heap \ DOMAIN heap), "none")
            /\ cuts' = cuts + 1
            /\ regrowths' = IF regrow
                            THEN MapSet(regrowths, Distance(heap, c.P),
                                        MapGet(regrowths, Distance(heap, c.P)) + 1)
                            ELSE regrowths
            /\ display' = checkWin(c.heap, hydra, c.moveCount, updateStatus(c.moveCount))
            /\ LET m == newIds(ids, heap, c.heap, nextId)
               IN ids' = [a \in DOMAIN heap' |-> m[a]]
            /\ nextId' = nextId + Cardinality(DOMAIN c.heap \ DOMAIN heap)
            /\ UNCHANGED <<page, hydra, initialSeed, indexVars, loaded, genArgs>>
       ELSE Rejected(n)

\* script.js render: a circle gets the click listener when isLeaf(n) && !isRoot(n);
\* a click on the node n (Null: on no node) runs cutLeaf(n) when n has the listener
ClickNode(n, maxStep, maxNodes) ==
    IF n # Null /\ isLeaf(heap, n) /\ ~isRoot(heap, n)
    THEN CutDone(n, maxStep, maxNodes)
    ELSE Rejected(n)

circleClick ==
    /\ page = "script" /\ Compacted(heap, hydra)
    /\ \E n \in DOMAIN heap \cup {Null} : ClickNode(n, MaxStep, MaxNodes)
    /\ UNCHANGED mouse

\* script.js: btnSimple, btnMedium, btnRandom call setHydra(generator, { type })
LoadPreset(type, s) ==
    /\ s \in PresetShapes(type)
    /\ ShapeSize(s) <= MaxNodes
    /\ LET r == setHydra(heap, s)
       IN /\ heap' = Live(r.heap, r.hydra) /\ hydra' = r.hydra
          /\ LET m == newIds(ids, heap, r.heap, 1)
             IN ids' = [a \in DOMAIN heap' |-> m[a]]
          /\ nextId' = 1 + Cardinality(DOMAIN r.heap \ DOMAIN heap)
    /\ moveCount' = 0
    /\ depthCounters' = resetCounters(depthCounters)
    /\ initialSeed' = type
    /\ genArgs' = PresetArgs(type)
    /\ last' = Plain("load")
    /\ cuts' = 0 /\ regrowths' = EmptyMap
    /\ loaded' = s
    /\ display' = updateStatus(moveCount')
    /\ UNCHANGED <<page, indexVars>>

presetClick ==
    /\ page = "script" /\ cuts <= MaxLoadCuts /\ Compacted(heap, hydra)
    /\ \E type \in PresetTypes : \E s \in PresetShapes(type) : LoadPreset(type, s)
    /\ UNCHANGED mouse

\* script.js: btnReset rebuilds from initialSeed.type
Reset ==
    /\ page = "script" /\ cuts <= MaxLoadCuts /\ Compacted(heap, hydra)
    /\ UNCHANGED mouse
    /\ IF initialSeed = NoSeed
       THEN Rejected(Null)
       ELSE \E s \in PresetShapes(initialSeed) :
               /\ ShapeSize(s) <= MaxNodes
               /\ LET r == setHydra(heap, s)
                  IN /\ heap' = Live(r.heap, r.hydra) /\ hydra' = r.hydra
                     /\ LET m == newIds(ids, heap, r.heap, 1)
                        IN ids' = [a \in DOMAIN heap' |-> m[a]]
                     /\ nextId' = 1 + Cardinality(DOMAIN r.heap \ DOMAIN heap)
               /\ moveCount' = 0
               /\ depthCounters' = resetCounters(depthCounters)
               /\ last' = Plain("reset")
               /\ cuts' = 0 /\ regrowths' = EmptyMap
               /\ loaded' = s
               /\ display' = updateStatus(moveCount')
               /\ UNCHANGED <<page, initialSeed, indexVars, genArgs>>

Next ==
    \/ Collect
    \/ \E length \in {3, 4, 5} : LoadChain(length)
    \/ \E s \in RandomTops : LoadRandomIndex(s)
    \/ ToggleReducedGrowth
    \/ handleClick
    \/ circleClick
    \/ presetClick
    \/ Reset

Spec == Init /\ [][Next]_vars

----------------------------------------------------------------------------
\* The cut entry points called on any node of the tree, not only through the click
\* handlers' filters

\* index.js: chop(n)
ChopCall(n) ==
    /\ page = "index" /\ Compacted(heap, root)
    /\ Chopped(n, MaxStep, MaxNodes)
    /\ UNCHANGED mouse

\* script.js: cutLeaf(n)
CutLeafCall(n) ==
    /\ page = "script" /\ Compacted(heap, hydra)
    /\ CutDone(n, MaxStep, MaxNodes)
    /\ UNCHANGED mouse

NextDirect ==
    \/ Collect
    \/ \E n \in DOMAIN heap : ChopCall(n)
    \/ \E n \in DOMAIN heap : CutLeafCall(n)

SpecDirect == Init /\ [][NextDirect]_vars

----------------------------------------------------------------------------
\* randomHydra called with any arguments: the page starts from setHydra(randomHydra(
\* maxDepth, maxBranch, leafBias), { type: 'random' }) and makes that call again

GenArgs == [maxDepth : 0..MaxDepthArg, maxBranch : 1..MaxBranchArg]

InitRandom ==
    /\ page = "script"
    /\ genArgs \in GenArgs
    /\ \E s \in RandomHydraShapes(genArgs.maxDepth, genArgs.maxBranch, MaxGenNodes) :
          LET r == setHydra(NoHeap, s)
          IN heap = Live(r.heap, r.hydra) /\ hydra = r.hydra
    /\ moveCount = 0 /\ depthCounters = EmptyMap /\ initialSeed = "random"
    /\ step = 0 /\ reducedGrowth = FALSE /\ listening = FALSE
    /\ display = updateStatus(moveCount)
    /\ ids = newIds(NoHeap, NoHeap, heap, 1) /\ nextId = 1 + Cardinality(DOMAIN heap)
    /\ idCounter = 0
    /\ last = Plain("init")
    /\ cuts = 0
    /\ mouse = Idle
    /\ regrowths = EmptyMap
    /\ loaded = Shape(heap, hydra)

RandomHydraCall(args, s) ==
    /\ page = "script" /\ Compacted(heap, hydra)
    /\ s \in RandomHydraShapes(args.maxDepth, args.maxBranch, MaxGenNodes)
    /\ LET r == setHydra(heap, s)
       IN /\ heap' = Live(r.heap, r.hydra) /\ hydra' = r.hydra
          /\ LET m == newIds(ids, heap, r.heap, 1)
             IN ids' = [a \in DOMAIN heap' |-> m[a]]
          /\ nextId' = 1 + Cardinality(DOMAIN r.heap \ DOMAIN heap)
    /\ moveCount' = 0
    /\ depthCounters' = resetCounters(depthCounters)
    /\ initialSeed' = "random"
    /\ genArgs' = args
    /\ UNCHANGED mouse
    /\ last' = Plain("load")
    /\ cuts' = 0 /\ regrowths' = EmptyMap
    /\ loaded' = s
    /\ display' = updateStatus(moveCount')
    /\ UNCHANGED <<page, indexVars>>

NextRandom ==
    \/ Collect
    \/ \E args \in GenArgs :
          \E s \in RandomHydraShapes(args.maxDepth, args.maxBranch, MaxGenNodes) :
             RandomHydraCall(args, s)

SpecRandom == InitRandom /\ [][NextRandom]_vars

----------------------------------------------------------------------------
\* index.js with its mouse events: presses, moves and releases on the canvas, the
\* timer endPan starts, and the click the browser dispatches after a release

\* a mouse event that leaves the tree alone
MouseOnly == UNCHANGED <<page, heap, indexVars, scriptVars, last, cuts, regrowths, loaded,
                         display, ids>>

\* mousedown with the left button: isPanning = true; dragged = false
mouseDown ==
    /\ page = "index" /\ mouse.pressed = "none"
    /\ mouse' = [mouse EXCEPT !.isPanning = TRUE, !.dragged = FALSE, !.pressed = "down",
                              !.target = Null]
    /\ MouseOnly

\* mousemove by a non-zero distance: if (!isPanning) return; dragged = true;
\* justPanned = true; redraw()
mouseMove ==
    /\ page = "index" /\ mouse.isPanning
    /\ mouse' = [mouse EXCEPT !.dragged = TRUE, !.justPanned = TRUE,
                              !.pressed = IF @ = "down" THEN "moved" ELSE @]
    /\ display' = redraw(heap, step, reducedGrowth)
    /\ LET t == relabelTree(heap, root)
       IN ids' = [a \in DOMAIN heap |-> t.ids[a]] /\ idCounter' = t.idCounter
    /\ UNCHANGED <<page, heap, step, reducedGrowth, listening, scriptVars, last, cuts,
                   regrowths, loaded>>

\* endPan: if (isPanning) { isPanning = false; setTimeout(() => { justPanned = false },
\* 50) }
endPan(m) ==
    IF m.isPanning THEN [m EXCEPT !.isPanning = FALSE, !.timers = @ + 1] ELSE m

\* mouseup on the canvas: endPan; the browser dispatches the click next
mouseUp ==
    /\ page = "index" /\ mouse.pressed \in {"down", "moved"}
    /\ mouse.timers < MaxTimers
    /\ mouse' = [endPan(mouse) EXCEPT !.pressed = IF @ = "down" THEN "up" ELSE "upmoved"]
    /\ MouseOnly

\* mouseleave: endPan; a press that leaves the canvas ends without a click
mouseLeave ==
    /\ page = "index" /\ mouse.pressed \in {"none", "down", "moved"}
    /\ mouse.timers < MaxTimers
    /\ mouse' = [endPan(mouse) EXCEPT !.pressed = "none"]
    /\ MouseOnly

\* a timer of endPan fires: justPanned = false
timerFires ==
    /\ page = "index" /\ mouse.timers > 0
    /\ mouse' = [mouse EXCEPT !.justPanned = FALSE, !.timers = @ - 1]
    /\ MouseOnly

\* the click after a release, on the node n (Null: on no node): handleClick returns
\* early when justPanned || dragged, and sets both to false either way
canvasClick ==
    /\ page = "index" /\ Compacted(heap, root)
    /\ mouse.pressed \in {"up", "upmoved"}
    /\ \E n \in DOMAIN heap \cup {Null} :
          /\ IF mouse.justPanned \/ mouse.dragged
             THEN Rejected(n)
             ELSE ClickAt(n, MaxMouseStep, MaxMouseNodes)
          /\ mouse' = [mouse EXCEPT !.justPanned = FALSE, !.dragged = FALSE,
                                    !.pressed = "none", !.target = n]

InitMouse == Init /\ page = "index"

NextMouse ==
    \/ Collect
    \/ mouseDown
    \/ mouseMove
    \/ mouseUp
    \/ mouseLeave
    \/ timerFires
    \/ canvasClick

SpecMouse == InitMouse /\ [][NextMouse]_vars

----------------------------------------------------------------------------
\* A play of index.js from a chain hydra of length 2 or 3, without reduced growth:
\* every click cuts a leaf, and nothing is loaded

InitChain ==
    /\ page = "index"
    /\ \E length \in {2, 3} :
          heap = Live(initHydra((root :> [children |-> <<>>, parent |-> Null]), length),
                      root)
    /\ step = 0 /\ reducedGrowth = FALSE /\ listening = TRUE
    /\ hydra = Null /\ moveCount = 0 /\ depthCounters = EmptyMap /\ initialSeed = NoSeed
    /\ genArgs = NoArgs
    /\ ids = relabelTree(heap, root).ids /\ idCounter = relabelTree(heap, root).idCounter
    /\ nextId = 1
    /\ display = redraw(heap, step, reducedGrowth)
    /\ last = Plain("init")
    /\ cuts = 0
    /\ mouse = Idle
    /\ regrowths = EmptyMap
    /\ loaded = IF page = "script" THEN Shape(heap, hydra) ELSE NoShape

ChainClick ==
    /\ page = "index" /\ Compacted(heap, root)
    /\ \E n \in DOMAIN heap :
          /\ isLeafIndex(heap, n)
          /\ ClickAt(n, MaxChainStep, MaxChainNodes)
    /\ UNCHANGED mouse

NextChain == Collect \/ ChainClick

SpecChain == InitChain /\ [][NextChain]_vars

----------------------------------------------------------------------------
\* Properties

\* the step is a cut that ran to its end, and a cut with regrowth
CutStep == last'.op = "cut" /\ last'.error = "none"
RegrowStep == CutStep /\ last'.G # Null
RootCutStep == CutStep /\ last'.G = Null

\* the move/turn counter of the page
Counter == IF page = "index" THEN step ELSE moveCount

\* the shape of P's subtree in h once its child L is taken out
RemainingShape(h, P, L) ==
    LET kids == SelectSeq(h[P].children, LAMBDA c : c # L)
    IN [i \in 1..Len(kids) |-> Shape(h, kids[i])]

\* the children a step appended to G
Appended(G) == SubSeq(heap'[G].children, Len(heap[G].children) + 1, Len(heap'[G].children))

Occurrences(seq, x) == Cardinality({i \in 1..Len(seq) : seq[i] = x})

\* the node reached from n by following parent references, Null when fuel runs out
RECURSIVE Climb(_, _, _)
Climb(h, n, fuel) ==
    IF n \notin DOMAIN h THEN Null
    ELSE IF h[n].parent = Null THEN n
    ELSE IF fuel = 0 THEN Null
    ELSE Climb(h, h[n].parent, fuel - 1)

\* a node that is no target for a cut: it has children, or it is the root
InvalidTarget(h, n) == n \in DOMAIN h /\ (h[n].children # <<>> \/ h[n].parent = Null)

\* C1: a cut entry point called on a node that has children, or on the root, is a
\* no-op: tree, move/turn counter and depth counters unchanged, no error thrown
C1_EntryPointsGuardTarget ==
    [][(last'.op = "cut" /\ InvalidTarget(heap, last'.leaf)) =>
          /\ heap' = heap
          /\ step' = step
          /\ moveCount' = moveCount
          /\ depthCounters' = depthCounters
          /\ last'.error = "none"]_vars

\* C2: after a cut of leaf L with parent P, grandparent G and growth factor N, G's
\* children are its previous children, in order, followed by N new subtrees of the shape
\* of P's subtree without L; P keeps that shape; the node count changes by
\* N * (size of P's remaining subtree) - 1
C2_RegrowthAppendsCopies ==
    [][RegrowStep =>
          LET L == last'.leaf
              P == last'.P
              G == last'.G
              N == last'.N
              old == heap[G].children
              rest == RemainingShape(heap, P, L)
          IN /\ Len(heap'[G].children) = Len(old) + N
             /\ SubSeq(heap'[G].children, 1, Len(old)) = old
             /\ Occurrences(old, P) = 1
             /\ \A i \in 1..N :
                   /\ Appended(G)[i] \notin DOMAIN heap
                   /\ Shape(heap', Appended(G)[i]) = rest
             /\ Shape(heap', P) = rest
             /\ NodeCount(heap', Top') = NodeCount(heap, Top) + N * ShapeSize(rest) - 1]_vars

C2_Witness ==
    /\ last.op = "cut" /\ last.G # Null /\ last.N >= 2
    /\ ~Compacted(heap, Top)
    /\ heap[last.P].children # <<>>

\* C3: in index.js without reduced growth, the k-th cut since the load appends k copies
\* when its parent is not the root, k counting the cuts under the root too; k is the
\* turn shown before the cut
C3_TurnIndexedFactor ==
    [][(page = "index" /\ RegrowStep /\ ~reducedGrowth) =>
          /\ Len(Appended(last'.G)) = cuts'
          /\ Len(Appended(last'.G)) = StatusTurn(step)
          /\ last'.N = cuts']_vars

\* a fourth cut that regrows after fewer than three regrowths: a cut under the root
\* came before it
C3_Witness ==
    /\ page = "index" /\ ~reducedGrowth
    /\ last.op = "cut" /\ last.G # Null /\ last.N = 4 /\ cuts = 4
    /\ MapGet(regrowths, 1) + MapGet(regrowths, 2) + MapGet(regrowths, 3) <= 3

\* C4: in script.js the n-th regrowth cut since the load whose parent is at depth d
\* appends n copies, whatever was cut at other depths
C4_DepthIndexedFactor ==
    [][(page = "script" /\ RegrowStep) =>
          LET d == Distance(heap, last'.P)
          IN /\ Len(Appended(last'.G)) = regrowths'[d]
             /\ regrowths'[d] = MapGet(regrowths, d) + 1]_vars

\* the third regrowth at depth 2, after a regrowth at depth 1
C4_Witness ==
    /\ page = "script"
    /\ last.op = "cut" /\ last.G # Null /\ last.N = 3
    /\ MapGet(regrowths, 2) = 3 /\ MapGet(regrowths, 1) = 1

\* C5: a cut of a leaf L under the root removes L alone: no object is allocated, the
\* root's children are the old ones without L, in order, every other node is as it
\* was, and the move/turn counter grows by one
C5_RootCutFrame ==
    [][RootCutStep =>
          LET L == last'.leaf
              P == last'.P
          IN /\ P = Top /\ Top' = Top
             /\ last'.alloc = 0
             /\ DOMAIN heap' = DOMAIN heap \ {L}
             /\ Len(heap'[P].children) = Len(heap[P].children) - 1
             /\ heap'[P] = [heap[P] EXCEPT !.children = SelectSeq(@, LAMBDA c : c # L)]
             /\ \A n \in DOMAIN heap' \ {P} : heap'[n] = heap[n]
             /\ Counter' = Counter + 1]_vars

\* a cut under the root that left two children behind, one of them with children
C5_Witness ==
    /\ last.op = "cut" /\ last.G = Null /\ last.P = Top
    /\ Len(heap[Top].children) >= 2
    /\ \E i \in 1..Len(heap[Top].children) : heap[heap[Top].children[i]].children # <<>>

\* C6: each copy made by a cut has as many nodes as P's remaining subtree and its shape;
\* its nodes are new, shared neither with the source nor with another copy; the parent
\* of each node below the copy's root is the node of that copy that lists it as a
\* child, and the parent of the copy's root is G; N * k objects are allocated
C6_DeepCopyFresh ==
    [][RegrowStep =>
          LET P == last'.P
              G == last'.G
              N == last'.N
              copies == Appended(G)
              k == NodeCount(heap', P)
          IN /\ last'.alloc = N * k
             /\ Reach(heap', P) \subseteq DOMAIN heap
             /\ \A i \in 1..Len(copies) :
                   LET c == copies[i]
                       sub == Reach(heap', c)
                   IN /\ sub \cap DOMAIN heap = {}
                      /\ Cardinality(sub) = k
                      /\ Len(PreOrder(heap', c)) = k
                      /\ Shape(heap', c) = Shape(heap', P)
                      /\ heap'[c].parent = G
                      /\ \A n \in sub :
                            \A j \in 1..Len(heap'[n].children) :
                               heap'[heap'[n].children[j]].parent = n
                      /\ \A j \in 1..Len(copies) :
                            j # i => sub \cap Reach(heap', copies[j]) = {}]_vars

\* two or more copies of a subtree of two or more nodes were attached
C6_Witness ==
    /\ last.op = "cut" /\ last.G # Null /\ last.N >= 2
    /\ ~Compacted(heap, Top)
    /\ Len(heap[last.G].children) >= 3
    /\ heap[heap[last.G].children[Len(heap[last.G].children)]].children # <<>>

\* C7: the structure is a tree: the root alone has no parent, every other node is
\* listed exactly once by its parent and by no other node, and the parent references
\* lead to the root
C7_TreeInvariant ==
    /\ Top \in DOMAIN heap
    /\ heap[Top].parent = Null
    /\ \A n \in DOMAIN heap : Top \notin Range(heap[n].children)
    /\ \A n \in DOMAIN heap \ {Top} :
          /\ heap[n].parent \in DOMAIN heap
          /\ Occurrences(heap[heap[n].parent].children, n) = 1
          /\ \A m \in DOMAIN heap \ {heap[n].parent} : n \notin Range(heap[m].children)
          /\ Climb(heap, n, Cardinality(DOMAIN heap)) = Top

\* a tree that holds copies made by a cut in script.js
C7_Witness ==
    /\ page = "script"
    /\ last.op = "cut" /\ last.G # Null /\ last.N >= 2

\* C8: from a state where the root has no children, only a load changes the tree, the
\* move/turn counter or the depth counters; no cut ever takes the root as its target,
\* the root stays in the store; in index.js the click listener is off once slain
C8_SlainIsFinal ==
    /\ [][(Slain /\ last'.op \notin {"load", "reset", "collect"}) =>
             /\ heap' = heap
             /\ step' = step
             /\ moveCount' = moveCount
             /\ depthCounters' = depthCounters
             /\ last'.op # "cut"]_vars
    /\ [][last'.op = "cut" => last'.leaf # Top]_vars
    /\ [](Top \in DOMAIN heap /\ heap[Top].parent = Null)
    /\ []((page = "index" /\ Slain) => ~listening)

\* a click arrived after the hydra was slain, and was rejected
C8_Witness == Slain /\ last.op = "reject" /\ cuts >= 1

\* the bounds of the chain specification cut no play short: every leaf can be cut
ChainBoundsSlack ==
    Compacted(heap, root) =>
       \A n \in DOMAIN heap :
          isLeafIndex(heap, n) =>
             /\ step < MaxChainStep
             /\ NodeCount(chop(heap, step, reducedGrowth, n).heap, root) <= MaxChainNodes

\* C9: from a chain of length 2 or 3, without reduced growth, every play ends with the
\* root childless after finitely many cuts: each cut adds one to step, step stays under
\* MaxChainStep while a leaf is left, the bounds cut no play short, and a state with no
\* leaf to cut is the slain state
C9_ChainPlaysEnd ==
    /\ []ChainBoundsSlack
    /\ [](Slain \/ \E n \in DOMAIN heap : isLeafIndex(heap, n))
    /\ [][last'.op # "collect" => (CutStep /\ step' = step + 1)]_vars
    /\ [][last'.op = "collect" => (~Compacted(heap, root) /\ Compacted(heap', root)
                                   /\ step' = step)]_vars

\* the hydra was slain by a play of more than 30 cuts
C9_Witness == Slain /\ step > 30 /\ cuts = step

\* the shapes of the chain of length 3 and of what the first cut leaves
Chain3 == << << << <<>> >> >> >>
Chain3CutOnce == << << <<>>, <<>> >> >>
Chain2 == << << <<>> >> >>

\* C10 as stated: after the chain of length 3 is loaded, the first cut (of n3) leaves
\* root -> n1 -> n2, move count 1, three nodes
C10_FirstCutNoRegrowth ==
    [][(page = "index" /\ step = 0 /\ Shape(heap, root) = Chain3 /\ CutStep) =>
          /\ Shape(heap', root) = Chain2
          /\ step' = 1
          /\ NodeCount(heap', root) = 3]_vars

\* C10 amended: the first cut (of n3) attaches one copy of n2 to n1: the tree is
\* root -> n1 -> (n2, copy of n2), move count 1, four nodes
C10_FirstCutOneCopy ==
    [][(page = "index" /\ step = 0 /\ Shape(heap, root) = Chain3 /\ CutStep) =>
          /\ last'.leaf = 3 /\ last'.P = 2 /\ last'.G = 1 /\ last'.N = 1
          /\ Shape(heap', root) = Chain3CutOnce
          /\ step' = 1
          /\ NodeCount(heap', root) = 4]_vars

C10_Witness ==
    /\ page = "index" /\ step = 1 /\ last.op = "cut" /\ last.leaf = 3
    /\ Shape(heap, root) = Chain3CutOnce

\* the shapes of root -> n1, and of what the second cut of the chain of length 3 leaves
Chain1 == << <<>> >>
Chain3CutTwice == << << <<>> >>, << <<>> >>, << <<>> >> >>

\* C11 as stated: in index.js a cut whose grandparent is the root allocates nothing and
\* appends nothing to the root; the second cut of the chain of length 3, of n2, leaves
\* root -> n1 with move count 2
C11_NoRegrowthUnderTop ==
    /\ [][(page = "index" /\ CutStep /\ last'.P # root /\ heap[last'.P].parent = root) =>
             /\ last'.alloc = 0
             /\ Len(heap'[root].children) = Len(heap[root].children)]_vars
    /\ [][(page = "index" /\ step = 1 /\ cuts = 1 /\ Shape(heap, root) = Chain3CutOnce
           /\ CutStep /\ last'.leaf = 2) =>
             /\ Shape(heap', root) = Chain1
             /\ step' = 2]_vars

\* C11 amended: in index.js a cut whose parent P is a child of the root regrows like any
\* cut with P other than the root: N >= 1 copies of P are appended to the root; without
\* reduced growth the second cut of the chain of length 3, of n2, appends two copies
\* of n1 to the root: root -> (n1 -> n2', n1' -> leaf, n1'' -> leaf), move count 2,
\* seven nodes
C11_RegrowthUnderTop ==
    /\ [][(page = "index" /\ CutStep /\ last'.P # root /\ heap[last'.P].parent = root) =>
             /\ last'.G = root
             /\ last'.N >= 1
             /\ last'.alloc = last'.N * NodeCount(heap', last'.P)
             /\ Len(heap'[root].children) = Len(heap[root].children) + last'.N]_vars
    /\ [][(page = "index" /\ step = 1 /\ cuts = 1 /\ Shape(heap, root) = Chain3CutOnce
           /\ ~reducedGrowth /\ CutStep /\ last'.leaf = 2) =>
             /\ last'.P = 1 /\ last'.G = root /\ last'.N = 2
             /\ Shape(heap', root) = Chain3CutTwice
             /\ step' = 2
             /\ NodeCount(heap', root) = 7]_vars

\* the second cut of the chain of length 3 was made on n2
C11_Witness ==
    /\ page = "index" /\ step = 2 /\ cuts = 2 /\ ~reducedGrowth
    /\ last.op = "cut" /\ last.leaf = 2 /\ last.P = 1 /\ last.G = root
    /\ Shape(heap, root) = Chain3CutTwice

\* C12: in index.js, while reducedGrowth is on, a cut whose parent is not the root
\* appends exactly one copy, whatever the turn
C12_ReducedGrowthOneCopy ==
    [][(page = "index" /\ RegrowStep /\ reducedGrowth) =>
          /\ last'.N = 1
          /\ Len(Appended(last'.G)) = 1
          /\ reducedGrowth']_vars

\* a regrowth at turn 3 or later with the mode on, in a tree that an earlier cut with
\* the mode off had given two copies
C12_Witness ==
    /\ page = "index" /\ reducedGrowth
    /\ last.op = "cut" /\ last.G # Null /\ last.N = 1 /\ step >= 3
    /\ NodeCount(heap, root) >= 7

\* the page's isLeaf applied to the node n
PageIsLeaf(n) == IF page = "index" THEN isLeafIndex(heap, n) ELSE isLeaf(heap, n)

\* C13: isLeaf(n) holds exactly when n has no children and is not the root, and no node
\* is both a leaf by isLeaf and the root (the node without parent), the childless root
\* of the slain state included
C13_LeafExcludesRoot ==
    \A n \in DOMAIN heap :
       /\ PageIsLeaf(n) <=> (heap[n].children = <<>> /\ n # Top)
       /\ ~(PageIsLeaf(n) /\ heap[n].parent = Null)

\* the smallest and the largest x among the nodes of the subtree of n
MinX(co, h, n) ==
    CHOOSE v \in {co[m].x : m \in Reach(h, n)} : \A m \in Reach(h, n) : v <= co[m].x
MaxX(co, h, n) ==
    CHOOSE v \in {co[m].x : m \in Reach(h, n)} : \A m \in Reach(h, n) : co[m].x <= v

\* C14: in script.js computeLayout gives the children of every node consecutive spans
\* that tile the node's own span, each as wide as the child's share size / total of it,
\* and the subtrees of two siblings occupy disjoint ranges of x, in child order
C14_ChildSpansTileParent ==
    page = "script" =>
       LET co == computeLayout(heap, hydra)
       IN \A n \in DOMAIN heap :
             LET kids == heap[n].children
                 k == Len(kids)
             IN k > 0 =>
                  /\ co[kids[1]].xLeft = co[n].xLeft
                  /\ co[kids[k]].xRight = co[n].xRight
                  /\ \A i \in 1..k :
                        (co[kids[i]].xRight - co[kids[i]].xLeft) * SumSizes(heap, kids)
                           = size(heap, kids[i]) * (co[n].xRight - co[n].xLeft)
                  /\ \A i \in 1..(k - 1) :
                        /\ co[kids[i]].xRight = co[kids[i + 1]].xLeft
                        /\ MaxX(co, heap, kids[i]) < MinX(co, heap, kids[i + 1])

\* the number of nodes without children in the subtree of n
Childless(h, n) == Cardinality({m \in Reach(h, n) : h[m].children = <<>>})

\* the ends of the span of n, doubled: 2x - width and 2x + width
Left2(pos, h, n) == 2 * pos[n].x - computeWidths(h, n)
Right2(pos, h, n) == 2 * pos[n].x + computeWidths(h, n)

\* C15: in index.js, after computeWidths(root) and placeNodes(root, 0, 0), the width of
\* every node is hSpacing times the number of childless nodes of its subtree, the span
\* [x - width/2, x + width/2] of each child lies in its parent's span, and the spans of
\* siblings follow one another in child order, meeting at most at an endpoint
C15_WidthsAndSpans ==
    page = "index" =>
       LET pos == placeNodes(heap, root, 0, 0)
       IN \A n \in DOMAIN heap :
             LET kids == heap[n].children
             IN /\ computeWidths(heap, n) = hSpacing * Childless(heap, n)
                /\ Childless(heap, n) >= 1
                /\ \A i \in 1..Len(kids) :
                      /\ Left2(pos, heap, n) <= Left2(pos, heap, kids[i])
                      /\ Right2(pos, heap, kids[i]) <= Right2(pos, heap, n)
                      /\ pos[kids[i]].y = pos[n].y - vSpacing
                      /\ \A j \in (i + 1)..Len(kids) :
                            Right2(pos, heap, kids[i]) <= Left2(pos, heap, kids[j])

\* a tree of index.js where a node with two or more children has a child that is
\* wider than hSpacing
C15_Witness ==
    /\ page = "index"
    /\ \E n \in DOMAIN heap :
          /\ Len(heap[n].children) >= 2
          /\ \E i \in 1..Len(heap[n].children) :
                computeWidths(heap, heap[n].children[i]) > hSpacing

\* C16: in script.js a cut appends copies to the grandparent exactly when the parent of
\* the cut leaf is left without children and has a parent of its own; a cut that leaves
\* other children under the parent allocates nothing
C16_RegrowthOnlyWhenParentBare ==
    [][(page = "script" /\ CutStep) =>
          LET P == last'.P
              bare == heap'[P].children = <<>> /\ heap[P].parent # Null
          IN /\ (last'.alloc > 0) <=> bare
             /\ (last'.G # Null) <=> bare]_vars

\* C17: in script.js Reset leaves a tree of the shape the last load (or reset) built,
\* with moveCount 0 and no depth counter stored, whatever was cut in between
C17_ResetRestoresLoaded ==
    [][(page = "script" /\ last'.op = "reset") =>
          /\ Shape(heap', hydra') = loaded
          /\ moveCount' = 0
          /\ depthCounters' = EmptyMap]_vars

\* C18: a load (in script.js a reset too) leaves step 0 in index.js, moveCount 0 and no
\* depth counter in script.js, whatever came before; the first regrowth after it
\* appends exactly one copy
C18_LoadResetsPolicy ==
    /\ [][last'.op \in {"load", "reset"} =>
             /\ page = "index" => step' = 0
             /\ page = "script" => (moveCount' = 0 /\ depthCounters' = EmptyMap)]_vars
    /\ [][(RegrowStep /\ regrowths = EmptyMap) =>
             /\ last'.N = 1
             /\ Len(Appended(last'.G)) = 1]_vars

\* script.js: the first regrowth after a random preset was loaded, cuts under the root
\* having come before it
C18_Witness ==
    /\ page = "script" /\ initialSeed = "random"
    /\ last.op = "cut" /\ last.G # Null /\ last.N = 1
    /\ moveCount >= 2
    /\ \E d \in DOMAIN regrowths : regrowths = (d :> 1)

\* C19: in script.js a cut whose parent is at depth d stores a new count for d and
\* leaves the counters of all other depths as they were; a cut under the root leaves
\* depthCounters as it was; no count is ever stored for depth 0
C19_CounterFrame ==
    /\ [][(page = "script" /\ CutStep) =>
             IF last'.G = Null
             THEN depthCounters' = depthCounters
             ELSE LET d == Distance(heap, last'.P)
                  IN /\ DOMAIN depthCounters' = DOMAIN depthCounters \cup {d}
                     /\ depthCounters'[d] = MapGet(depthCounters, d) + 1
                     /\ \A x \in DOMAIN depthCounters \ {d} :
                           depthCounters'[x] = depthCounters[x]]_vars
    /\ [](0 \notin DOMAIN depthCounters)

\* a regrowth cut at one depth while a count is stored for another depth, and a cut
\* under the root earlier on
C19_Witness ==
    /\ page = "script" /\ last.op = "cut" /\ last.G # Null
    /\ Cardinality(DOMAIN depthCounters) >= 2
    /\ cuts > MapGet(regrowths, 1) + MapGet(regrowths, 2) + MapGet(regrowths, 3)

\* C20: in script.js, in every state an event handler leaves (so whenever the next
\* cutLeaf reads p.depth), the depth field of every node of the tree, the copies made
\* by earlier cuts included, is its distance from the root
C20_DepthsFresh ==
    page = "script" =>
       \A n \in DOMAIN heap : heap[n].depth = Distance(heap, n)

\* right after a regrowth cut: the last copy appended has children and sits two or
\* more levels below the root
C20_Witness ==
    /\ page = "script" /\ last.op = "cut" /\ last.G # Null /\ ~Compacted(heap, hydra)
    /\ LET kids == heap[last.G].children
           c == kids[Len(kids)]
       IN /\ heap[c].depth >= 2
          /\ heap[c].children # <<>>
          /\ heap[heap[c].children[1]].depth = heap[c].depth + 1

\* C21: in every state an event leaves, the page shows the engine state: index.js shows
\* turn step + 1, the node count of the tree and, as Regrowth n, the factor the next
\* regrowth cut applies; script.js shows moveCount; both show the slain notice exactly
\* when the root has no children
C21_DisplayAgrees ==
    /\ [](/\ display.counter = (IF page = "index" THEN step + 1 ELSE moveCount)
          /\ display.slain = Slain
          /\ page = "index" => display.nodes = NodeCount(heap, root))
    /\ [][(page = "index" /\ RegrowStep) => last'.N = display.regrowthN]_vars

\* the slain notice is up after cuts; a turn of index.js at which a regrowth cut is
\* possible and the caption shows a factor of 3 or more
C21_Witness ==
    \/ Slain /\ display.slain /\ cuts >= 2 /\ last.op = "cut"
    \/ /\ page = "index" /\ display.regrowthN >= 3 /\ last.op = "cut"
       /\ \E n \in DOMAIN heap : isLeafIndex(heap, n) /\ heap[n].parent # root

\* C22: in both layouts the y of a node is fixed by its depth alone: index.js places a
\* node of depth d at y = -vSpacing * d, script.js at y = 40 + d * LEVEL_GAP, so nodes
\* of equal depth share their y, the copies of a regrowth included
C22_HeightByDepth ==
    LET co == IF page = "index" THEN placeNodes(heap, root, 0, 0)
              ELSE computeLayout(heap, hydra)
    IN /\ \A n \in DOMAIN heap :
             co[n].y = IF page = "index" THEN 0 - vSpacing * Distance(heap, n)
                       ELSE Px(40 + Distance(heap, n) * LEVEL_GAP)
       /\ \A n, m \in DOMAIN heap :
             Distance(heap, n) = Distance(heap, m) => co[n].y = co[m].y

\* a regrowth has just attached copies, and two nodes under different parents lie at
\* the same depth
C22_Witness ==
    /\ last.op = "cut" /\ last.G # Null /\ last.alloc > 0
    /\ \E n, m \in DOMAIN heap :
          /\ heap[n].parent # heap[m].parent
          /\ Distance(heap, n) = Distance(heap, m)

C24_IdsDistinct ==
    LET po == PreOrder(heap, Top)
    IN /\ \A i, j \in 1..Len(po) : i # j => ids[po[i]] # ids[po[j]]
       /\ page = "index" =>
             /\ ids[root] = 0
             /\ \A i \in 1..Len(po) : ids[po[i]] = i - 1
             /\ idCounter = Len(po)

\* script.js after a load that reset the counter and a regrowth cut that drew ids, the
\* tree holding an id beyond its node count
C24_Witness ==
    /\ page = "script" /\ last.op = "cut" /\ last.alloc > 0
    /\ loaded # BalancedShape(3, 2)
    /\ \E n \in DOMAIN heap : ids[n] > NodeCount(heap, hydra)

\* the height of the tree: the largest distance of a node from the root r
Height(h, r) ==
    LET ds == {Distance(h, n) : n \in Reach(h, r)}
    IN CHOOSE d \in ds : \A e \in ds : e <= d

\* C25: no cut makes the tree higher: the copies of a regrowth hang at the depth of P,
\* so the height after a cut is at most the height before it, under both growth
\* policies and in both pages
C25_HeightNeverGrows ==
    [][CutStep => Height(heap', Top') <= Height(heap, Top)]_vars

\* a regrowth that allocated two or more nodes in a tree of height two or more
C25_Witness ==
    /\ last.op = "cut" /\ last.error = "none" /\ last.G # Null /\ last.alloc >= 2
    /\ Height(heap, Top) >= 2

\* C26: in index.js a left click whose press did not move (mousedown, mouseup, click),
\* on a leaf, cuts that leaf, whatever mouse events came before and whether or not a
\* timer of endPan is still pending
C26_StationaryClickCuts ==
    [][(/\ mouse.pressed = "up" /\ mouse'.pressed = "none"
        /\ mouse'.target # Null /\ isLeafIndex(heap, mouse'.target))
          => (CutStep /\ last'.leaf = mouse'.target)]_vars

====
